---- MODULE Spec2Model ----
(***************************************************************************)
(* A model of the Optimizely export extraction and load scripts:           *)
(*   load_optimizely_decisions_v2.py   ("v2": probe, list, transfer)       *)
(*   extract_optimizely_s3.py          ("s3": day folders or scan)         *)
(*   stage_and_load_to_bq_gcs.py, stage_and_load_to_bq_local_v2.py         *)
(* Strings are sequences of one-character strings, so that endswith,       *)
(* startswith, split, concatenation and the sort order are computed        *)
(* character by character as Python computes them.                         *)
(* The store is not written to while a run lasts, and no key is the        *)
(* folder of another key's local path.                                     *)
(***************************************************************************)
EXTENDS Integers, Sequences, FiniteSets, TLC

----------------------------------------------------------------------------
(* Bounds of the model. *)

\* Number of consecutive calendar days, from DEFAULT_START_DATE, that
\* --start-date and --end-date are drawn from.
MaxDays == 2

\* Number of keys the store returns per list_objects_v2 page.
PageSize == 2

\* Number of objects the store holds under the base prefix: payload
\* (.parquet) objects for v2, which collects no others; objects of any
\* kind for the day-folder script, which collects them all.
MaxObjects == 2

\* Number of download_file calls that may raise in one run of the
\* transfer loop (a write to a directory raises besides).
MaxFaults == 1

\* Number of files present in the output directory, at paths the run
\* looks at, before the first run.
MaxLocalFiles == 1

\* The most files a load is given.
MaxFiles == 3

\* The largest batch size tried (for CHUNK_SIZE and --batch-size).
MaxBatchSize == 2

\* The list requests one enumeration may issue before the model stops
\* following it.
MaxRequests == 4

----------------------------------------------------------------------------
(* Strings. *)

\* The characters in ascending code point order (Python compares str by
\* code point).
Alphabet ==
    <<"-", ".", "/", "0", "1", "2", "3", "4", "5", "6", "7", "8", "9", ":",
      "<", "=", ">", "A", "B", "C", "D", "E", "F", "G", "H", "I", "J", "K",
      "L", "M", "N", "O", "P", "Q", "R", "S", "T", "U", "V", "W", "X", "Y",
      "Z", "_", "a", "b", "c", "d", "e", "f", "g", "h", "i", "j", "k", "l",
      "m", "n", "o", "p", "q", "r", "s", "t", "u", "v", "w", "x", "y", "z">>

OrdOf == [c \in {Alphabet[i] : i \in 1..Len(Alphabet)} |->
             CHOOSE i \in 1..Len(Alphabet) : Alphabet[i] = c]

Ord(c) == OrdOf[c]

\* str.endswith
EndsWith(s, suf) ==
    /\ Len(s) >= Len(suf)
    /\ SubSeq(s, Len(s) - Len(suf) + 1, Len(s)) = suf

\* str.startswith
StartsWith(s, pre) ==
    /\ Len(s) >= Len(pre)
    /\ SubSeq(s, 1, Len(pre)) = pre

\* a < b on str: the first differing character decides, a proper prefix
\* is smaller.
RECURSIVE StrLessFrom(_, _, _)
StrLessFrom(a, b, i) ==
    IF i > Len(b) THEN FALSE
    ELSE IF i > Len(a) THEN TRUE
    ELSE IF a[i] = b[i] THEN StrLessFrom(a, b, i + 1)
    ELSE Ord(a[i]) < Ord(b[i])

StrLess(a, b) == StrLessFrom(a, b, 1)

\* str.split(sep) for a one-character separator: the pieces between the
\* separators, empty pieces included.
RECURSIVE SplitFrom(_, _, _, _)
SplitFrom(s, sep, from, i) ==
    IF i > Len(s) THEN <<SubSeq(s, from, Len(s))>>
    ELSE IF s[i] = sep
         THEN <<SubSeq(s, from, i - 1)>> \o SplitFrom(s, sep, i + 1, i + 1)
         ELSE SplitFrom(s, sep, from, i + 1)

Split(s, sep) == SplitFrom(s, sep, 1, 1)

\* os.path.join(root, *parts) for parts that hold no separator: a part is
\* appended after a "/" unless the path so far already ends with one.
RECURSIVE PathJoin(_, _)
PathJoin(root, parts) ==
    IF parts = <<>> THEN root
    ELSE PathJoin(IF root = <<>> \/ EndsWith(root, <<"/">>)
                  THEN root \o Head(parts)
                  ELSE root \o <<"/">> \o Head(parts),
                  Tail(parts))

\* os.path.dirname: everything before the last "/".
RECURSIVE DirName(_)
DirName(p) ==
    IF p = <<>> THEN <<>>
    ELSE IF p[Len(p)] = "/" THEN SubSeq(p, 1, Len(p) - 1)
    ELSE DirName(SubSeq(p, 1, Len(p) - 1))

----------------------------------------------------------------------------
(* Calendar dates: <<year, month, day>>. *)

DEFAULT_START_DATE == <<2024, 10, 30>>

IsLeap(y) == (y % 4 = 0 /\ y % 100 # 0) \/ y % 400 = 0

DaysInMonth(y, m) ==
    IF m = 2 THEN (IF IsLeap(y) THEN 29 ELSE 28)
    ELSE IF m \in {4, 6, 9, 11} THEN 30 ELSE 31

\* d + timedelta(days=1)
NextDay(d) ==
    IF d[3] < DaysInMonth(d[1], d[2]) THEN <<d[1], d[2], d[3] + 1>>
    ELSE IF d[2] < 12 THEN <<d[1], d[2] + 1, 1>>
    ELSE <<d[1] + 1, 1, 1>>

\* date <= date
DateLE(a, b) ==
    \/ a[1] < b[1]
    \/ a[1] = b[1] /\ a[2] < b[2]
    \/ a[1] = b[1] /\ a[2] = b[2] /\ a[3] <= b[3]

DigitChar(n) == Alphabet[4 + n]

Digits2(n) == <<DigitChar(n \div 10), DigitChar(n % 10)>>

Digits4(n) ==
    <<DigitChar(n \div 1000), DigitChar((n \div 100) % 10),
      DigitChar((n \div 10) % 10), DigitChar(n % 10)>>

\* date.isoformat(): YYYY-MM-DD
IsoFormat(d) ==
    Digits4(d[1]) \o <<"-">> \o Digits2(d[2]) \o <<"-">> \o Digits2(d[3])

RECURSIVE DayAt(_)
DayAt(i) == IF i = 0 THEN DEFAULT_START_DATE ELSE NextDay(DayAt(i - 1))

\* The days --start-date and --end-date are drawn from.
Days == {DayAt(i) : i \in 0..(MaxDays - 1)}

\* daterange(start, end): the days d with start <= d <= end, ascending.
RECURSIVE daterange(_, _)
daterange(start, end) ==
    IF DateLE(start, end) THEN <<start>> \o daterange(NextDay(start), end)
    ELSE <<>>

----------------------------------------------------------------------------
(* Program constants. *)

TYPE_DECISIONS == <<"t","y","p","e","=","d","e","c","i","s","i","o","n","s","/">>
TYPE_EVENTS == <<"t","y","p","e","=","e","v","e","n","t","s","/">>
TYPE_RERUN ==
    <<"t","y","p","e","=","d","e","c","i","s","i","o","n","s","-","r","e","r","u","n","/">>
SUCCESS_MARKER == <<"_","S","U","C","C","E","S","S">>
PARQUET == <<".","p","a","r","q","u","e","t">>
DATE_EQ == <<"d","a","t","e","=">>
OUT_DIR == <<"d","o","w","n","l","o","a","d","s">>
DEFAULT_BUCKET ==
    <<"o","p","t","i","m","i","z","e","l","y","-","e","v","e","n","t","s","-","d","a","t","a">>

----------------------------------------------------------------------------
(* The object store, as the scripts see it through list_objects_v2,        *)
(* head_object and download_file.                                          *)

\* The names an object may have below a partition prefix: the prefix
\* itself (a zero-byte directory marker, whose key ends in "/"), the
\* completion marker and two payload files.
ObjectNames ==
    { <<>>, SUCCESS_MARKER,
      <<"a",".","p","a","r","q","u","e","t">>,
      <<"b",".","p","a","r","q","u","e","t">> }

ObjectSize(name) ==
    IF name = <<"a",".","p","a","r","q","u","e","t">> THEN 100
    ELSE IF name = <<"b",".","p","a","r","q","u","e","t">> THEN 200
    ELSE 0

\* The sizes a file found in the output directory before the run may have.
LocalSizes == {100, 200}

\* The objects the store may hold under a prefix.
ObjectsUnder(p) == {[Key |-> p \o n, Size |-> ObjectSize(n)] : n \in ObjectNames}

\* All sequences that enumerate the set S once each.
RECURSIVE Enumerations(_)
Enumerations(S) ==
    IF S = {} THEN {<<>>}
    ELSE UNION {{<<x>> \o t : t \in Enumerations(S \ {x})} : x \in S}

\* What the store may hold among the objects U, in the order it lists
\* them, when it holds at most room payload objects.
Listings(U, room) ==
    UNION {Enumerations(S) :
             S \in {T \in SUBSET U :
                      Cardinality({o \in T : EndsWith(o.Key, PARQUET)}) <= room}}

\* A continuation token names the position of the next key; no token is
\* the empty string, which Python's "if token:" takes as absent.
\* The same when every object is kept by the caller: at most room objects.
ListingsUpTo(U, room) ==
    UNION {Enumerations(S) : S \in {T \in SUBSET U : Cardinality(T) <= room}}

NoToken == <<>>

\* One list_objects_v2 response for a listing L: the page that starts at
\* the position the continuation token names (the first without a token).
ListObjectsV2(L, tok) ==
    LET from == IF tok = NoToken THEN 1 ELSE tok[1]
        upto == IF from + PageSize - 1 < Len(L) THEN from + PageSize - 1 ELSE Len(L)
    IN [Contents |-> SubSeq(L, from, upto),
        IsTruncated |-> upto < Len(L),
        NextContinuationToken |-> IF upto < Len(L) THEN <<upto + 1>> ELSE NoToken]

\* The outcomes of head_object: found, or one of the errors it raises.
HeadOutcomes == {"ok", "not_found", "access_denied", "error"}

----------------------------------------------------------------------------
(* Helpers of the extraction scripts. *)

\* A filter that keeps every listed object.
OnlyParquetAll(objs) == objs

\* [o for o in objs if o["Key"].endswith(".parquet")]
RECURSIVE OnlyParquet(_)
OnlyParquet(objs) ==
    IF objs = <<>> THEN <<>>
    ELSE IF EndsWith(Head(objs).Key, PARQUET)
         THEN <<Head(objs)>> \o OnlyParquet(Tail(objs))
         ELSE OnlyParquet(Tail(objs))

\* A collection left in the order the dates and pages gave it.
SortByKeyNot(objs) == objs

\* list.sort(key=lambda o: o["Key"]): stable, ascending by key.
RECURSIVE InsertByKey(_, _)
InsertByKey(o, sorted) ==
    IF sorted = <<>> THEN <<o>>
    ELSE IF StrLess(o.Key, Head(sorted).Key) THEN <<o>> \o sorted
    ELSE <<Head(sorted)>> \o InsertByKey(o, Tail(sorted))

RECURSIVE SortByKey(_)
SortByKey(objs) ==
    IF objs = <<>> THEN <<>>
    ELSE InsertByKey(objs[Len(objs)], SortByKey(SubSeq(objs, 1, Len(objs) - 1)))

\* prefix + f"date={d.isoformat()}/"
DatePrefix(p, d) == p \o DATE_EQ \o IsoFormat(d) \o <<"/">>

\* ensure_local_path: the local path of a key.
LocalPath(root, key) == PathJoin(root, Split(key, "/"))

----------------------------------------------------------------------------
(* State. *)

VARIABLES
    script,       \* which entry point runs: "v2" or "s3"
    pc,           \* position in main()
    args,         \* the parsed command line
    bucket,       \* the bucket the run reads
    prefix,       \* the base prefix the run reads
    cur,          \* the loop variable d of "for d in daterange(start, end)"
    detect,       \* s3: what try_detect_partitioning found
    listing,      \* what the store holds under the prefix being listed
    listed,       \* whether the store's listing for that prefix is fixed yet
    token,        \* list_objects: the continuation token
    day_objs,     \* the payload objects of the current day so far
    all_objects,  \* the running collection
    idx,          \* position of the transfer loop in all_objects
    ok,           \* transfer counter: downloaded
    skipped,      \* transfer counter: skipped
    failed,       \* transfer counter: failed
    files,        \* the output directory: path -> size of each file
    dirs,         \* the output directory: the directories created
    before,       \* the output directory before the first run, at the
                  \* paths looked at so far: path -> <<>> or <<size>>
    run,          \* which run over the collection this is: "first", "second"
    exit_code,    \* the exit status, once pc = "exit"
    net,          \* history: the network calls issued, in order
    last_head,    \* history: the head_object response of the step just
                  \* taken, if it made that call
    gated,        \* history: the days skipped for want of a marker
    outcomes,     \* history: what this run of the transfer loop did with
                  \* each object, by position in all_objects
    prev,         \* history: the summary of the previous run
    env,          \* start-up: the environment variables read
    s3_path_hint, \* start-up: the s3Path of the credential response
    error,        \* start-up: the error the run ended with, if any
    checked,      \* history: the calls of validate_prefix_endswith
    store,        \* history: the payload objects the bucket held under
                  \* the prefix of each date that was listed
    dir_size,     \* the size the file system reports for a directory,
                  \* once a run has asked for one
    cred_response, \* history: what the credentials request came back with
    log,          \* what the credential exchange and its caller wrote to
                  \* stdout and stderr
    uris,         \* loader: the files to load, in order
    jobs,         \* loader: the load jobs submitted, in order
    table,        \* loader: the files whose rows the table holds
    at,           \* loader: where the current batch starts in uris
    file_at       \* loader: the file of the batch the next job loads

start_vars == <<env, s3_path_hint, error, checked, cred_response, log>>

load_vars == <<uris, jobs, table, at, file_at>>

run_vars ==
    <<cur, detect, listing, listed, token, day_objs, all_objects, idx, ok,
      skipped, failed, files, dirs, before, run, last_head, gated, outcomes,
      prev, dir_size, store>>

vars ==
    <<script, pc, args, bucket, prefix, exit_code, net, run_vars, start_vars,
      load_vars>>

\* A network call as the history records it.
Call(op, key, tok) == [op |-> op, key |-> key, tok |-> tok]

NoHead == [day |-> DEFAULT_START_DATE, outcome |-> "none"]

----------------------------------------------------------------------------
(* v2 main(): the date loop. *)

\* A date loop that runs one day past the end date.
NextDatePastEnd ==
    /\ cur' = NextDay(cur)
    /\ pc' = IF DateLE(cur, args.end) THEN "probe" ELSE "collected"

\* "continue" / the end of the loop body: the next day, or the end of
\* the loop.
NextDate ==
    /\ cur' = NextDay(cur)
    /\ pc' = IF DateLE(NextDay(cur), args.end) THEN "probe" ELSE "collected"

\* A probe that takes only "not found" for a missing marker.
success_marker_exists_unless_404(outcome) == outcome # "not_found"

\* success_marker_exists: True iff head_object returns, False on any
\* exception.
success_marker_exists(outcome) == outcome = "ok"

\* Whether the day is skipped: "if not has_success and args.require_success".
SkipsDay(has_success, require_success) == ~has_success /\ require_success

\* One iteration of the date loop up to the listing: the marker probe and
\* the decision to skip the day.
Probe ==
    /\ pc = "probe"
    /\ \E outcome \in HeadOutcomes, date_prefix \in {DatePrefix(prefix, cur)} :
         /\ net' = Append(net, Call("HEAD", date_prefix \o SUCCESS_MARKER, NoToken))
         /\ last_head' = [day |-> cur, outcome |-> outcome]
         /\ IF SkipsDay(success_marker_exists(outcome), args.require_success)
            THEN /\ gated' = gated \cup {cur}
                 /\ NextDate
            ELSE /\ gated' = gated
                 /\ pc' = "list"
                 /\ cur' = cur
    /\ token' = NoToken
    /\ day_objs' = <<>>
    /\ listing' = <<>>
    /\ listed' = FALSE
    /\ UNCHANGED <<script, detect, args, bucket, prefix, all_objects, idx, ok, skipped,
                   failed, files, dirs, before, run, exit_code, outcomes, prev>>
    /\ UNCHANGED <<dir_size, store, start_vars, load_vars>>

\* The payload objects of a listing: those named *.parquet.
Payload(L) == {L[i] : i \in {j \in 1..Len(L) : EndsWith(L[j].Key, PARQUET)}}

\* list_objects, one pass of its "while True", inside the comprehension
\* that keeps the parquet keys; after the last page, the rest of the loop
\* body.
ListPage ==
    /\ pc = "list"
    /\ \E date_prefix \in {DatePrefix(prefix, cur)} :
       \E L \in (IF listed THEN {listing} ELSE Listings(ObjectsUnder(date_prefix),
                                                    MaxObjects - Len(all_objects))) :
       \E resp \in {ListObjectsV2(L, token)} :
       \E objs \in {day_objs \o OnlyParquet(resp.Contents)} :
         /\ net' = Append(net, Call("LIST", date_prefix, token))
         /\ store' = IF listed THEN store
                      ELSE [d \in DOMAIN store \cup {cur} |->
                              IF d = cur THEN Payload(L) ELSE store[d]]
         /\ IF resp.IsTruncated
            THEN /\ token' = resp.NextContinuationToken
                 /\ day_objs' = objs
                 /\ listing' = L
                 /\ listed' = TRUE
                 /\ UNCHANGED <<pc, cur, all_objects>>
            ELSE /\ token' = NoToken
                 /\ day_objs' = <<>>
                 /\ listing' = <<>>
                 /\ listed' = FALSE
                 /\ all_objects' = all_objects \o objs
                 /\ NextDate
    /\ last_head' = NoHead
    /\ UNCHANGED <<script, detect, args, bucket, prefix, idx, ok, skipped, failed,
                   files, dirs, before, run, exit_code, gated, outcomes, prev>>
    /\ UNCHANGED <<dir_size, start_vars, load_vars>>

\* After the loop: nothing found exits 0; otherwise the collection is
\* sorted by key and the transfer counters start at zero.
Collected ==
    /\ pc = "collected"
    /\ IF all_objects = <<>>
       THEN /\ pc' = "exit"
            /\ exit_code' = 0
            /\ UNCHANGED <<all_objects, idx, ok, skipped, failed>>
       ELSE /\ all_objects' = SortByKey(all_objects)
            /\ idx' = 1
            /\ ok' = 0
            /\ skipped' = 0
            /\ failed' = 0
            /\ pc' = "transfer"
            /\ UNCHANGED exit_code
    /\ last_head' = NoHead
    /\ UNCHANGED <<script, detect, args, bucket, prefix, cur, listing, listed, token,
                   day_objs, files, dirs, before, run, net, gated, outcomes,
                   prev>>
    /\ UNCHANGED <<dir_size, store, start_vars, load_vars>>

----------------------------------------------------------------------------
(* extract_optimizely_s3.py main(): day folders, or a scan of the prefix.  *)

DEFAULT_PREFIX == <<"d","e","c","i","s","i","o","n","_","e","v","e","n","t","s","/">>

\* ymd_path_for: 'prefix/YYYY/MM/DD/'
ymd_path_for(p, d) ==
    (IF EndsWith(p, <<"/">>) THEN p ELSE p \o <<"/">>)
    \o Digits4(d[1]) \o <<"/">> \o Digits2(d[2]) \o <<"/">> \o Digits2(d[3]) \o <<"/">>

IsDigit(c) == c \in {"0", "1", "2", "3", "4", "5", "6", "7", "8", "9"}

DigitVal(c) == Ord(c) - Ord("0")

\* One optional separator of [-/_] at position i: the position after it.
SkipSep(s, i) == IF i <= Len(s) /\ s[i] \in {"-", "/", "_"} THEN i + 1 ELSE i

\* DATE_IN_KEY_REGEX matched at position i of s:
\*   (?<!\d)(20\d{2})[-/_]?([01]\d)[-/_]?([0-3]\d)(?!\d)
\* The match as <<end, year, month, day>> (end: the position after the
\* match), or <<>> when the pattern does not match at i.
MatchDateAt(s, i) ==
    LET j == SkipSep(s, i + 4)
        k == SkipSep(s, j + 2)
    IN IF /\ (i = 1 \/ ~IsDigit(s[i - 1]))
          /\ i + 3 <= Len(s)
          /\ s[i] = "2" /\ s[i + 1] = "0" /\ IsDigit(s[i + 2]) /\ IsDigit(s[i + 3])
          /\ j + 1 <= Len(s)
          /\ s[j] \in {"0", "1"} /\ IsDigit(s[j + 1])
          /\ k + 1 <= Len(s)
          /\ s[k] \in {"0", "1", "2", "3"} /\ IsDigit(s[k + 1])
          /\ (k + 2 > Len(s) \/ ~IsDigit(s[k + 2]))
       THEN <<k + 2,
              1000 * DigitVal(s[i]) + 100 * DigitVal(s[i + 1])
                + 10 * DigitVal(s[i + 2]) + DigitVal(s[i + 3]),
              10 * DigitVal(s[j]) + DigitVal(s[j + 1]),
              10 * DigitVal(s[k]) + DigitVal(s[k + 1])>>
       ELSE <<>>

\* A date(y, m, d) that takes any numbers.
ValidDateAny(y, m, d) == TRUE

\* date(y, m, d) raises ValueError unless the day exists.
ValidDate(y, m, d) == m \in 1..12 /\ d \in 1..DaysInMonth(y, m)

\* key_has_date_in_range, from position i on: finditer's matches left to
\* right, none overlapping; a match that is no calendar date is passed
\* over; any match in range makes it True.
RECURSIVE HasDateFrom(_, _, _, _)
HasDateFrom(key, start, end, i) ==
    IF i > Len(key) THEN FALSE
    ELSE LET m == MatchDateAt(key, i)
         IN IF m = <<>> THEN HasDateFrom(key, start, end, i + 1)
            ELSE IF /\ ValidDate(m[2], m[3], m[4])
                    /\ DateLE(start, <<m[2], m[3], m[4]>>)
                    /\ DateLE(<<m[2], m[3], m[4]>>, end)
                 THEN TRUE
                 ELSE HasDateFrom(key, start, end, m[1])

key_has_date_in_range(key, start, end) == HasDateFrom(key, start, end, 1)

\* [o for o in objs if key_has_date_in_range(o["Key"], start, end)]
RECURSIVE OnlyInRange(_, _, _)
OnlyInRange(objs, start, end) ==
    IF objs = <<>> THEN <<>>
    ELSE IF key_has_date_in_range(Head(objs).Key, start, end)
         THEN <<Head(objs)>> \o OnlyInRange(Tail(objs), start, end)
         ELSE OnlyInRange(Tail(objs), start, end)

\* The objects the store may hold under the base prefix p: a folder
\* marker and a payload object for each day, and an object whose folder
\* names no calendar day.
ScanObjects(p) ==
    {o \in UNION {ObjectsUnder(ymd_path_for(p, d)) : d \in Days} :
       ~EndsWith(o.Key, SUCCESS_MARKER) /\ o.Size # 200}
    \cup {[Key |-> p \o <<"2","0","2","4","/","1","3","/","3","0","/",
                           "a",".","p","a","r","q","u","e","t">>,
           Size |-> 100]}

\* try_detect_partitioning, unless --force-scan: one list call for the
\* first day's folder with MaxKeys=1; objects there mean day folders, no
\* objects or an exception mean a scan.
Detect ==
    /\ pc = "detect"
    /\ IF args.force_scan
       THEN /\ detect' = "skipped"
            /\ pc' = "scan"
            /\ UNCHANGED <<net, listing, listed>>
       ELSE \E day_prefix \in {ymd_path_for(prefix, args.start)} :
            \E raised \in BOOLEAN :
            \E L \in (IF raised THEN {<<>>}
                      ELSE ListingsUpTo(ObjectsUnder(day_prefix), MaxObjects)) :
              /\ net' = Append(net, Call("LIST", day_prefix, NoToken))
              /\ detect' = IF raised THEN "error"
                           ELSE IF L # <<>> THEN "found" ELSE "empty"
              /\ pc' = IF ~raised /\ L # <<>> THEN "list_s3" ELSE "scan"
              /\ listing' = L
              /\ listed' = (~raised /\ L # <<>>)
    /\ last_head' = NoHead
    /\ UNCHANGED <<script, args, bucket, prefix, cur, token, day_objs,
                   all_objects, idx, ok, skipped, failed, files, dirs, before,
                   run, exit_code, gated, outcomes, prev>>
    /\ UNCHANGED <<dir_size, store, start_vars, load_vars>>

\* list_by_day_if_partitioned: one pass of list_s3_objects' "while True"
\* for the current day's folder; every object is kept.
ListPageS3 ==
    /\ pc = "list_s3"
    /\ \E day_prefix \in {ymd_path_for(prefix, cur)} :
       \E L \in (IF listed THEN {listing}
                 ELSE ListingsUpTo(ObjectsUnder(day_prefix),
                                   MaxObjects - Len(all_objects))) :
       \E resp \in {ListObjectsV2(L, token)} :
         /\ net' = Append(net, Call("LIST", day_prefix, token))
         /\ all_objects' = all_objects \o resp.Contents
         /\ IF resp.IsTruncated
            THEN /\ token' = resp.NextContinuationToken
                 /\ listing' = L
                 /\ listed' = TRUE
                 /\ UNCHANGED <<pc, cur>>
            ELSE /\ token' = NoToken
                 /\ listing' = <<>>
                 /\ listed' = FALSE
                 /\ cur' = NextDay(cur)
                 /\ pc' = IF DateLE(NextDay(cur), args.end) THEN "list_s3"
                          ELSE "collected"
    /\ last_head' = NoHead
    /\ UNCHANGED <<script, detect, args, bucket, prefix, day_objs, idx, ok,
                   skipped, failed, files, dirs, before, run, exit_code, gated,
                   outcomes, prev>>
    /\ UNCHANGED <<dir_size, store, start_vars, load_vars>>

\* The scan: one pass of list_s3_objects' "while True" for the base
\* prefix; the keys with a date in range are kept. When the detection
\* found the first day's folder empty, the store holds nothing there.
ScanPage ==
    /\ pc = "scan"
    /\ \E first \in {ymd_path_for(prefix, args.start)} :
       \E L \in (IF listed THEN {listing}
                 ELSE ListingsUpTo({o \in ScanObjects(prefix) :
                                      detect = "empty" => ~StartsWith(o.Key, first)},
                                   MaxObjects)) :
       \E resp \in {ListObjectsV2(L, token)} :
         /\ net' = Append(net, Call("LIST", prefix, token))
         /\ all_objects' = all_objects
                             \o OnlyInRange(resp.Contents, args.start, args.end)
         /\ IF resp.IsTruncated
            THEN /\ token' = resp.NextContinuationToken
                 /\ listing' = L
                 /\ listed' = TRUE
                 /\ pc' = pc
            ELSE /\ token' = NoToken
                 /\ listing' = <<>>
                 /\ listed' = FALSE
                 /\ pc' = "collected"
    /\ last_head' = NoHead
    /\ UNCHANGED <<script, detect, args, bucket, prefix, cur, day_objs, idx, ok,
                   skipped, failed, files, dirs, before, run, exit_code, gated,
                   outcomes, prev>>
    /\ UNCHANGED <<dir_size, store, start_vars, load_vars>>

----------------------------------------------------------------------------
(* The transfer loop: v2 main() lines 385-405, download_objects.           *)

\* The sizes os.path.getsize reports for a directory (it depends on the
\* file system: 0 on NTFS, a block on ext4).
DirSizes == {0, 4096}

\* os.path.isdir, given the directories made so far.
IsDir(path, made) ==
    LET p == IF EndsWith(path, <<"/">>) THEN SubSeq(path, 1, Len(path) - 1) ELSE path
    IN \E d \in made : d = p \/ StartsWith(d, p \o <<"/">>)

\* Whether the loop passes over the key without counting it:
\* v2 "if key.endswith("/") or not key: continue"; the day-folder script
\* has no such test.
IgnoresKey(scr, key) == scr = "v2" /\ (EndsWith(key, <<"/">>) \/ key = <<>>)

\* A skip rule that wants the local file larger than the object.
ShouldSkipLarger(exists, local_size, size) == exists /\ local_size > size

\* The skip rule: os.path.exists(local_path) and
\* os.path.getsize(local_path) == size.
ShouldSkip(exists, local_size, size) == exists /\ local_size = size

\* A loop that skips whatever exists locally, whatever its size.
DecideExistsOnly(exists, local_size, size, dry_run) ==
    IF exists THEN "skip"
    ELSE IF dry_run THEN "plan"
    ELSE "fetch"

\* A loop that does not look at the dry-run option.
DecideNoDryRun(exists, local_size, size, dry_run) ==
    IF ShouldSkip(exists, local_size, size) THEN "skip" ELSE "fetch"

\* What the loop does with a key it does not ignore.
Decide(exists, local_size, size, dry_run) ==
    IF ShouldSkip(exists, local_size, size) THEN "skip"
    ELSE IF dry_run THEN "plan"
    ELSE "fetch"

\* The size of the file download_file leaves behind when it returns: the
\* object's size (the store is not written to during a run).
DownloadedSize(obj) == obj.Size

\* The outcomes of download_file: it returns, or raises. Writing to a path
\* that is a directory always raises.
FetchOutcomes(isdir, faults) ==
    IF isdir THEN {"fault"}
    ELSE IF faults < MaxFaults THEN {"ok", "fault"}
    ELSE {"ok"}

\* The state of a path as the run finds it: no file (the empty sequence)
\* or a file of some size. What was there before the first run is fixed
\* when a run first looks at the path.
PreStates(path) ==
    IF path \in DOMAIN before
    THEN {IF path \in DOMAIN files THEN <<files[path]>> ELSE <<>>}
    ELSE {<<>>} \cup
         (IF Cardinality({q \in DOMAIN before : before[q] # <<>>}) < MaxLocalFiles
          THEN {<<n>> : n \in LocalSizes} ELSE {})

\* f with path set to the state st.
WithFile(f, path, st) ==
    [q \in (IF st = <<>> THEN DOMAIN f \ {path} ELSE DOMAIN f \cup {path}) |->
        IF q = path THEN st[1] ELSE f[q]]

Outcome(pre, what, fetched) == [pre |-> pre, what |-> what, fetched |-> fetched]

\* A loop that a fault ends.
NextIndexAbort(i, res) == IF res = "fault" THEN Len(all_objects) + 1 ELSE i + 1

\* Where the loop goes after the object at i: "except Exception" counts
\* the fault and the "for" takes the next object.
NextIndex(i, res) == i + 1

\* "if failed > 0: sys.exit(2)", else the end of main.
ExitStatusOne(n_failed) == IF n_failed > 0 THEN 1 ELSE 0

ExitStatus(n_failed) == IF n_failed > 0 THEN 2 ELSE 0

\* One iteration of the transfer loop.
TransferStep ==
    /\ pc = "transfer"
    /\ idx <= Len(all_objects)
    /\ last_head' = NoHead
    /\ IF IgnoresKey(script, all_objects[idx].Key)
       THEN /\ outcomes' = Append(outcomes, Outcome(<<>>, "ignored", FALSE))
            /\ idx' = idx + 1
            /\ UNCHANGED <<ok, skipped, failed, files, dirs, before, net, dir_size>>
       ELSE \E obj \in {all_objects[idx]} :
            \E path \in {LocalPath(OUT_DIR, obj.Key)} :
            \E made \in {dirs \cup {DirName(path)}} :
            \E isdir \in {IsDir(path, made)} :
            \E pre \in (IF isdir THEN {<<>>} ELSE PreStates(path)) :
            \E local_size \in (IF isdir
                               THEN (IF dir_size = <<>> THEN DirSizes ELSE {dir_size[1]})
                               ELSE IF pre # <<>> THEN {pre[1]} ELSE {0}) :
            \E todo \in {Decide(isdir \/ pre # <<>>, local_size, obj.Size, args.dry_run)} :
            \E res \in (IF todo = "fetch" THEN FetchOutcomes(isdir, failed) ELSE {"none"}) :
              /\ idx' = NextIndex(idx, res)
              /\ dirs' = made
              /\ dir_size' = IF isdir THEN <<local_size>> ELSE dir_size
              /\ before' = IF isdir \/ path \in DOMAIN before THEN before
                           ELSE [q \in DOMAIN before \cup {path} |->
                                    IF q = path THEN pre ELSE before[q]]
              /\ files' = IF isdir THEN files
                          ELSE IF res = "ok"
                               THEN WithFile(files, path, <<DownloadedSize(obj)>>)
                               ELSE WithFile(files, path, pre)
              /\ net' = IF todo = "fetch" THEN Append(net, Call("GET", obj.Key, NoToken))
                        ELSE net
              /\ ok' = IF todo = "plan" \/ res = "ok" THEN ok + 1 ELSE ok
              /\ skipped' = IF todo = "skip" THEN skipped + 1 ELSE skipped
              /\ failed' = IF res = "fault" THEN failed + 1 ELSE failed
              /\ outcomes' = Append(outcomes,
                     Outcome(IF isdir THEN <<local_size>> ELSE pre,
                             IF todo = "skip" THEN "skipped"
                             ELSE IF todo = "plan" \/ res = "ok" THEN "downloaded"
                             ELSE "failed",
                             todo = "fetch"))
    /\ UNCHANGED <<script, detect, pc, args, bucket, prefix, cur, listing, listed, token,
                   day_objs, all_objects, run, exit_code, gated, prev>>
    /\ UNCHANGED <<store, start_vars, load_vars>>

\* After the loop: the summary, and "if failed > 0: sys.exit(2)".
Summary ==
    /\ pc = "transfer"
    /\ idx > Len(all_objects)
    /\ pc' = "exit"
    /\ exit_code' = ExitStatus(failed)
    /\ last_head' = NoHead
    /\ UNCHANGED <<script, detect, args, bucket, prefix, cur, listing, listed, token,
                   day_objs, all_objects, idx, ok, skipped, failed, files, dirs,
                   before, run, net, gated, outcomes, prev>>
    /\ UNCHANGED <<dir_size, store, start_vars, load_vars>>

\* The same command is run again: the transfer loop runs over the same
\* collection (the remote objects are unchanged) against the same output
\* directory.
Rerun ==
    /\ pc = "exit"
    /\ all_objects # <<>>
    /\ run = "first"
    /\ run' = "second"
    /\ prev' = [dry_run |-> args.dry_run, ok |-> ok, skipped |-> skipped,
                failed |-> failed, calls |-> Len(net)]
    /\ idx' = 1
    /\ ok' = 0
    /\ skipped' = 0
    /\ failed' = 0
    /\ outcomes' = <<>>
    /\ pc' = "transfer"
    /\ exit_code' = 0
    /\ last_head' = NoHead
    /\ UNCHANGED <<script, detect, args, bucket, prefix, cur, listing, listed, token,
                   day_objs, all_objects, files, dirs, before, net, gated>>
    /\ UNCHANGED <<dir_size, store, start_vars, load_vars>>

----------------------------------------------------------------------------
(* The extraction run, from the first day of the date loop.                *)

ACCOUNT_PREFIX == <<"v","1","/","a","c","c","o","u","n","t","_","i","d","=","1","/">>

EXPORT_BUCKET == <<"m","y","-","e","x","p","o","r","t","-","b","u","c","k","e","t">>

\* v2 after its start-up (valid dates, a client, a valid prefix), at the
\* head of the date loop.
InitV2 ==
    /\ script = "v2"
    /\ pc = "probe"
    /\ \E s \in Days, e \in Days, dry \in BOOLEAN, req \in BOOLEAN :
         /\ DateLE(s, e)
         /\ args = [start |-> s, end |-> e, dry_run |-> dry, require_success |-> req,
                    force_scan |-> FALSE]
         /\ cur = s
    /\ bucket = DEFAULT_BUCKET
    /\ prefix = ACCOUNT_PREFIX \o TYPE_DECISIONS

\* The day-folder script after its start-up (valid dates, a client, a
\* bucket), before the partition detection.
InitS3 ==
    /\ script = "s3"
    /\ pc = "detect"
    /\ \E s \in Days, e \in Days, dry \in BOOLEAN, scan \in BOOLEAN :
         /\ DateLE(s, e)
         /\ args = [start |-> s, end |-> e, dry_run |-> dry, require_success |-> FALSE,
                    force_scan |-> scan]
         /\ cur = s
    /\ bucket = EXPORT_BUCKET
    /\ prefix = DEFAULT_PREFIX

\* No start-up step is recorded.
NoStart ==
    /\ env = [OPTIMIZELY_PAT |-> <<>>, AWS_KEYS |-> FALSE]
    /\ s3_path_hint = <<>>
    /\ error = "none"
    /\ checked = <<>>
    /\ cred_response = "none"
    /\ log = <<>>

\* No load is under way.
NoLoad ==
    /\ uris = <<>>
    /\ jobs = <<>>
    /\ table = <<>>
    /\ at = 1
    /\ file_at = 1

\* Nothing is listed, collected, transferred or written yet.
Fresh ==
    /\ detect = "none"
    /\ listing = <<>>
    /\ listed = FALSE
    /\ token = NoToken
    /\ day_objs = <<>>
    /\ all_objects = <<>>
    /\ idx = 1
    /\ ok = 0
    /\ skipped = 0
    /\ failed = 0
    /\ files = <<>>
    /\ dirs = {}
    /\ before = <<>>
    /\ dir_size = <<>>
    /\ store = <<>>
    /\ run = "first"
    /\ exit_code = 0
    /\ net = <<>>
    /\ last_head = NoHead
    /\ gated = {}
    /\ outcomes = <<>>
    /\ prev = [dry_run |-> FALSE, ok |-> 0, skipped |-> 0, failed |-> 0, calls |-> 0]

Init == (InitV2 \/ InitS3) /\ Fresh /\ NoStart /\ NoLoad

Next ==
    \/ Probe
    \/ ListPage
    \/ Detect
    \/ ListPageS3
    \/ ScanPage
    \/ Collected
    \/ TransferStep
    \/ Summary
    \/ Rerun

Spec == Init /\ [][Next]_vars

----------------------------------------------------------------------------
(* Properties of the extraction run.                                       *)

\* The probe outcomes that are no success.
ProbeFailures == HeadOutcomes \ {"ok"}

\* The transfer loop is running or has run.
InTransfer == pc = "transfer" \/ (pc = "exit" /\ all_objects # <<>>)

\* The object at position i is no directory marker.
Eligible(i) ==
    all_objects[i].Key # <<>> /\ ~EndsWith(all_objects[i].Key, <<"/">>)

\* The loop found a local file of the object's size at position i.
SameSize(i) ==
    outcomes[i].pre # <<>> /\ outcomes[i].pre[1] = all_objects[i].Size

\* C1. Completeness gating: with completeness required, a probe that does
\* not succeed (marker absent, access denied, any other failure) leaves
\* the collection, the failure counter and the exit status as they were,
\* raises nothing and moves the loop to the next date; and no object under
\* the prefix of a date skipped this way is ever in the collection.
CompletenessGating ==
    /\ [](\A d \in gated : \A i \in 1..Len(all_objects) :
            ~StartsWith(all_objects[i].Key, DatePrefix(prefix, d)))
    /\ [][(/\ pc = "probe"
           /\ args.require_success
           /\ last_head'.outcome \in ProbeFailures)
          => (/\ last_head'.day = cur
              /\ cur \in gated'
              /\ all_objects' = all_objects
              /\ failed' = failed
              /\ exit_code' = exit_code
              /\ cur' = NextDay(cur)
              /\ pc' = (IF DateLE(cur', args.end) THEN "probe" ELSE "collected"))]_vars

\* A run with completeness required that skipped one date and collected
\* objects of another, at the transfer loop.
CompletenessGatingWitness ==
    /\ script = "v2"
    /\ args.require_success
    /\ gated # {}
    /\ all_objects # <<>>
    /\ pc = "transfer"

\* C2. Counting: after each object the transfer loop has processed, and at
\* the end of the run, downloaded + skipped + failed is the number of
\* objects processed so far that are no directory markers.
CountingAsClaimed ==
    InTransfer =>
        ok + skipped + failed
          = Cardinality({i \in 1..Len(outcomes) : Eligible(i)})

\* C12. Directory markers: an object whose key ends in the path separator
\* is never fetched (no GET request names it) and is passed over by the
\* transfer loop without a change of downloaded, skipped or failed, in
\* both extraction scripts.
DirectoryMarkersIgnored ==
    /\ \A i \in 1..Len(net) :
          net[i].op = "GET" => ~EndsWith(net[i].key, <<"/">>)
    /\ InTransfer =>
          \A i \in 1..Len(outcomes) :
             EndsWith(all_objects[i].Key, <<"/">>) =>
                 (outcomes[i].what = "ignored" /\ ~outcomes[i].fetched)

\* C13. Completeness check disabled: with the require-completeness option
\* off the check is bypassed entirely: no marker probe (HEAD request) is
\* issued for any date, and no date is passed over, so that the objects
\* listed under every date of the range are collected whether or not a
\* marker exists.
NoProbeWhenDisabled ==
    (script = "v2" /\ ~args.require_success) =>
        /\ \A i \in 1..Len(net) : net[i].op # "HEAD"
        /\ gated = {}

\* C17. Dry run performs no transfer: in a dry run no GET request is
\* issued, failed stays 0, every object the loop has processed that is no
\* directory marker is counted as skipped if a local file of its size is
\* there and as downloaded otherwise, and every local file the run has
\* looked at is as it was before the run, so that the same dry run made
\* again ends with the same three counts.
DryRunNoTransfer ==
    args.dry_run =>
        /\ \A i \in 1..Len(net) : net[i].op # "GET"
        /\ failed = 0
        /\ InTransfer =>
              \A i \in 1..Len(outcomes) :
                 /\ ~outcomes[i].fetched
                 /\ Eligible(i) =>
                       outcomes[i].what = (IF SameSize(i) THEN "skipped"
                                           ELSE "downloaded")
        /\ DOMAIN files \subseteq DOMAIN before
        /\ \A q \in DOMAIN before :
              IF before[q] = <<>> THEN q \notin DOMAIN files
              ELSE q \in DOMAIN files /\ files[q] = before[q][1]
        /\ (run = "second" /\ pc = "exit") =>
              /\ ok = prev.ok
              /\ skipped = prev.skipped
              /\ failed = prev.failed
              /\ Len(net) = prev.calls

\* The second of two dry runs has ended, with an object counted as
\* downloaded and one counted as skipped.
DryRunNoTransferWitness ==
    /\ args.dry_run
    /\ run = "second"
    /\ pc = "exit"
    /\ ok > 0
    /\ skipped > 0

\* The scenario: v2 run for real over 2024-10-30..2024-10-31 with
\* completeness required; day 30 has its marker and two payload objects,
\* of sizes 100 and 200; day 31 has no marker.
Scenario ==
    /\ script = "v2"
    /\ run = "first"
    /\ args.start = DEFAULT_START_DATE
    /\ args.end = NextDay(DEFAULT_START_DATE)
    /\ args.require_success
    /\ ~args.dry_run
    /\ EndsWith(prefix, TYPE_DECISIONS)
    /\ gated = {args.end}
    /\ DOMAIN store = {args.start}
    /\ Cardinality(store[args.start]) = 2
    /\ {o.Size : o \in store[args.start]} = {100, 200}

\* The local destination was empty.
EmptyDestination == \A i \in 1..Len(outcomes) : outcomes[i].pre = <<>>

\* The local destination held a file of size 100 in the place of the
\* object of size 100, and nothing in the place of the other.
MatchingFile ==
    \A i \in 1..Len(outcomes) :
       outcomes[i].pre = (IF all_objects[i].Size = 100 THEN <<100>> ELSE <<>>)

\* C18. End-to-end scenario: in the scenario the collection is exactly
\* the two objects of day 30; and when no fetch fails, the run ends with
\* downloaded 2, skipped 0, failed 0 if the local destination was empty,
\* and with downloaded 1, skipped 1, failed 0 if it held a file matching
\* the object of size 100.
EndToEnd ==
    (Scenario /\ pc \in {"transfer", "exit"}) =>
        /\ Len(all_objects) = 2
        /\ {all_objects[i] : i \in 1..2} = store[args.start]
        /\ \A i \in 1..2 :
              StartsWith(all_objects[i].Key, DatePrefix(prefix, args.start))
        /\ (pc = "exit" /\ failed = 0 /\ EmptyDestination) =>
              (ok = 2 /\ skipped = 0 /\ exit_code = 0)
        /\ (pc = "exit" /\ failed = 0 /\ MatchingFile) =>
              (ok = 1 /\ skipped = 1 /\ exit_code = 0)

\* The scenario's second run: it has ended with one object fetched and
\* the object of size 100 skipped.
EndToEndWitness ==
    /\ Scenario
    /\ pc = "exit"
    /\ MatchingFile
    /\ failed = 0
    /\ ok = 1
    /\ skipped = 1
    /\ \E i \in 1..Len(net) : net[i].op = "GET"

\* C22. Transfer order: the collection the transfer loop works on is in
\* ascending order of key over all dates and pages, the loop takes the
\* objects one by one in that order, and so the GET requests of a run are
\* in ascending order of key.
TransferOrder ==
    /\ InTransfer =>
          /\ \A i \in 1..Len(all_objects), j \in 1..Len(all_objects) :
                i < j => ~StrLess(all_objects[j].Key, all_objects[i].Key)
          /\ Len(outcomes) = idx - 1
    /\ \A p \in 1..Len(net), q \in 1..Len(net) :
          (/\ p < q
           /\ net[p].op = "GET" /\ net[q].op = "GET"
           /\ (p <= prev.calls) = (q <= prev.calls))
          => ~StrLess(net[q].key, net[p].key)

\* Two objects of two dates have been fetched, the one of the first date
\* first.
TransferOrderWitness ==
    /\ pc = "transfer"
    /\ run = "first"
    /\ Len(all_objects) = 2
    /\ idx = 3
    /\ StartsWith(all_objects[1].Key, DatePrefix(prefix, args.start))
    /\ ~StartsWith(all_objects[2].Key, DatePrefix(prefix, args.start))
    /\ Cardinality({p \in 1..Len(net) : net[p].op = "GET"}) = 2

\* C3. Idempotence: after a live run of v2 in which no fetch failed, a
\* second run over the same collection and the same output directory
\* classifies every object skipped, downloads nothing, fails nothing and
\* issues no fetch.
Idempotence ==
    (script = "v2" /\ run = "second" /\ ~prev.dry_run /\ prev.failed = 0) =>
        /\ ok = 0
        /\ failed = 0
        /\ Len(net) = prev.calls
        /\ \A i \in 1..Len(outcomes) :
             outcomes[i].what = "skipped" /\ ~outcomes[i].fetched
        /\ pc = "exit" => skipped = Len(all_objects)

\* A second run, finished, after a live first run that downloaded
\* something and failed nothing.
IdempotenceWitness ==
    /\ script = "v2"
    /\ run = "second"
    /\ pc = "exit"
    /\ ~prev.dry_run
    /\ prev.failed = 0
    /\ prev.ok > 0
    /\ skipped = Len(all_objects)

\* C4. Failure isolation: a fetch that faults counts the object as failed
\* and the loop goes on: every object of the sorted collection is
\* attempted, and the exit status is non-zero only once all of them have
\* been.
FailureIsolation ==
    /\ InTransfer =>
         /\ Len(outcomes) = idx - 1
         /\ failed = Cardinality({i \in 1..Len(outcomes) :
                                    outcomes[i].what = "failed"})
    /\ (pc = "exit" /\ all_objects # <<>>) => Len(outcomes) = Len(all_objects)
    /\ exit_code # 0 =>
         /\ pc = "exit"
         /\ failed > 0
         /\ Len(outcomes) = Len(all_objects)

\* A run that ended with the failure status, in which an object was
\* downloaded after the fetch of an earlier one had faulted.
FailureIsolationWitness ==
    /\ pc = "exit"
    /\ exit_code = 2
    /\ \E i, j \in 1..Len(outcomes) :
         /\ i < j
         /\ outcomes[i].what = "failed"
         /\ outcomes[j].what = "downloaded"
         /\ outcomes[j].fetched

\* C5 as stated. Skip rule: an object that is no directory marker is
\* classified skipped, with no fetch issued, if and only if a local file
\* of the object's size exists at its path; a local file of another size
\* is fetched again.
SkipRuleAsClaimed ==
    \A i \in 1..Len(outcomes) : Eligible(i) =>
        /\ (outcomes[i].what = "skipped" /\ ~outcomes[i].fetched) <=> SameSize(i)
        /\ (outcomes[i].pre # <<>> /\ ~SameSize(i)) => outcomes[i].fetched

\* C5 as amended. Skip rule: an object that is no directory marker is
\* classified skipped if and only if a local file of the object's size
\* exists at its path, and then no fetch is issued; a local file of
\* another size is fetched again in a live run, and in a dry run is
\* counted as downloaded with no fetch.
SkipRule ==
    \A i \in 1..Len(outcomes) : Eligible(i) =>
        /\ outcomes[i].what = "skipped" <=> SameSize(i)
        /\ outcomes[i].what = "skipped" => ~outcomes[i].fetched
        /\ (outcomes[i].pre # <<>> /\ ~SameSize(i)) =>
             /\ outcomes[i].fetched <=> ~args.dry_run
             /\ args.dry_run => outcomes[i].what = "downloaded"

\* A live run fetched an object again over a local file of another size,
\* and skipped one whose local file had the object's size.
SkipRuleWitness ==
    /\ ~args.dry_run
    /\ \E i, j \in 1..Len(outcomes) :
         /\ Eligible(i) /\ Eligible(j)
         /\ outcomes[i].pre # <<>> /\ ~SameSize(i) /\ outcomes[i].fetched
         /\ SameSize(j) /\ outcomes[j].what = "skipped"


\* The keys of the calls of the log that satisfy Test, in order.
KeysOf(Test(_)) ==
    LET sel == SelectSeq(net, Test)
    IN [i \in 1..Len(sel) |-> sel[i].key]

\* The marker probes, and the list requests that ask for a first page.
ProbeKeys == KeysOf(LAMBDA c : c.op = "HEAD")
FirstPageKeys == KeysOf(LAMBDA c : c.op = "LIST" /\ c.tok = NoToken)

\* F applied to each element of the sequence ds.
Map(F(_), ds) == [i \in 1..Len(ds) |-> F(ds[i])]

\* The dates of the range in ascending order, and those before date c.
RangeDays == daterange(args.start, args.end)
DaysBefore(c) == SelectSeq(RangeDays, LAMBDA d : d # c /\ DateLE(d, c))

\* C8 as stated. Date bounding: v2 probes and lists the partition prefix
\* of exactly the dates from start to end, once each and in ascending
\* order, and of no other date.
DateBoundingAsClaimed ==
    script = "v2" =>
        /\ \A i \in 1..Len(net) : net[i].op \in {"HEAD", "LIST"} =>
             \E d \in {RangeDays[k] : k \in 1..Len(RangeDays)} :
                net[i].key \in {DatePrefix(prefix, d),
                                DatePrefix(prefix, d) \o SUCCESS_MARKER}
        /\ pc \in {"collected", "transfer", "exit"} =>
             /\ ProbeKeys = Map(LAMBDA d : DatePrefix(prefix, d) \o SUCCESS_MARKER,
                                RangeDays)
             /\ FirstPageKeys = Map(LAMBDA d : DatePrefix(prefix, d), RangeDays)

\* C8 as amended. Date bounding: v2 probes the partition prefix of exactly
\* the dates from start to end, once each and in ascending order, and
\* lists the prefix of exactly those of them it does not skip for want of
\* a marker, once each and in ascending order. The day-folder script,
\* after its one detection request for the start date's folder, lists the
\* folder of each date from start to end once and in ascending order, or
\* else only the base prefix. No probe or list is issued for the partition
\* of a date outside the range.
DateBounding ==
    LET done == DaysBefore(cur)
        kept == SelectSeq(done, LAMBDA d : d \notin gated)
        now(F(_)) == IF pc \in {"list", "list_s3"} THEN {<<>>, <<F(cur)>>} ELSE {<<>>}
    IN /\ script = "v2" =>
            /\ ProbeKeys = Map(LAMBDA d : DatePrefix(prefix, d) \o SUCCESS_MARKER,
                               IF pc = "list" THEN Append(done, cur) ELSE done)
            /\ \E last \in now(LAMBDA d : DatePrefix(prefix, d)) :
                 FirstPageKeys = Map(LAMBDA d : DatePrefix(prefix, d), kept) \o last
       /\ script = "s3" =>
            /\ ProbeKeys = <<>>
            /\ detect = "none" => net = <<>>
            /\ detect = "skipped" =>
                 \A i \in 1..Len(net) : net[i].op = "LIST" => net[i].key = prefix
            /\ detect \in {"empty", "error"} =>
                 /\ net[1] = Call("LIST", ymd_path_for(prefix, args.start), NoToken)
                 /\ \A i \in 2..Len(net) : net[i].op = "LIST" => net[i].key = prefix
            /\ detect = "found" =>
                 \E last \in now(LAMBDA d : ymd_path_for(prefix, d)) :
                    FirstPageKeys = <<ymd_path_for(prefix, args.start)>>
                                      \o Map(LAMBDA d : ymd_path_for(prefix, d), done)
                                      \o last

\* The date loop of v2 is over for a range of several days, one of them
\* skipped for want of a marker and one listed.
DateBoundingWitness ==
    /\ script = "v2"
    /\ pc = "collected"
    /\ args.start # args.end
    /\ gated # {}
    /\ FirstPageKeys # <<>>

----------------------------------------------------------------------------
(* v2 main(): the start-up, from the parsed command line to the plan.      *)

T_DECISIONS == <<"d","e","c","i","s","i","o","n","s">>
T_EVENTS == <<"e","v","e","n","t","s">>
T_RERUN == <<"d","e","c","i","s","i","o","n","s","-","r","e","r","u","n">>
TYPE_EQ == <<"t","y","p","e","=">>
S3_SCHEME == <<"s","3",":","/","/">>
ACCOUNT_ID_EQ == <<"v","1","/","a","c","c","o","u","n","t","_","i","d","=">>
OPTLY_CRED_URL ==
    <<"h","t","t","p","s",":","/","/","a","p","i",".","o","p","t","i","m","i","z","e","l","y",
      ".","c","o","m","/","v","2","/","e","x","p","o","r","t","/","c","r","e","d","e","n","t",
      "i","a","l","s">>

\* A personal access token, an account id.
PAT == <<"t","o","k">>
ACCOUNT_ID == <<"2">>

\* s minus its last character.
Chop(s) == SubSeq(s, 1, Len(s) - 1)

\* The values of --prefix tried: none, a prefix of each type, one without
\* its final separator, one without a type.
PrefixArgs ==
    {<<>>,
     ACCOUNT_PREFIX \o TYPE_DECISIONS,
     Chop(ACCOUNT_PREFIX \o TYPE_DECISIONS),
     ACCOUNT_PREFIX \o TYPE_EVENTS,
     ACCOUNT_PREFIX \o TYPE_RERUN,
     ACCOUNT_PREFIX}

\* The values of --start-date and --end-date tried: the days of the
\* model, a month 13, a date in another notation.
DateArgs ==
    {IsoFormat(d) : d \in Days}
    \cup {<<"2","0","2","4","-","1","3","-","0","1">>,
          <<"3","0","/","1","0","/","2","0","2","4">>}

\* The s3Path values of a credential response tried: none, the account
\* folder, a folder below it, a URL of another scheme.
HintPaths ==
    {<<>>,
     S3_SCHEME \o DEFAULT_BUCKET \o <<"/">> \o Chop(ACCOUNT_PREFIX),
     S3_SCHEME \o EXPORT_BUCKET \o <<"/">> \o ACCOUNT_PREFIX \o TYPE_EVENTS,
     <<"h","t","t","p",":","/","/","x","/">> \o ACCOUNT_PREFIX}

\* What the credential request may come to: requests.get raises, a status
\* other than 200, a body that is no JSON, a body without one of the four
\* credential fields, an expiration that is no number, a complete
\* response.
CredOutcomes ==
    {"exception", "status", "bad_json", "missing_field", "bad_expiration", "ok"}

\* date.fromisoformat of a YYYY-MM-DD string: the date, or <<>> for
\* ValueError.
FromIsoFormat(s) ==
    IF /\ Len(s) = 10
       /\ s[5] = "-" /\ s[8] = "-"
       /\ \A i \in {1, 2, 3, 4, 6, 7, 9, 10} : IsDigit(s[i])
    THEN LET y == 1000 * DigitVal(s[1]) + 100 * DigitVal(s[2])
                    + 10 * DigitVal(s[3]) + DigitVal(s[4])
             mth == 10 * DigitVal(s[6]) + DigitVal(s[7])
             d == 10 * DigitVal(s[9]) + DigitVal(s[10])
         IN IF y >= 1 /\ ValidDate(y, mth, d) THEN <<y, mth, d>> ELSE <<>>
    ELSE <<>>

\* The first position from i on that holds no digit.
RECURSIVE DigitsEnd(_, _)
DigitsEnd(s, i) == IF i <= Len(s) /\ IsDigit(s[i]) THEN DigitsEnd(s, i + 1) ELSE i

\* s.lstrip("/")
RECURSIVE LStripSlash(_)
LStripSlash(s) == IF s # <<>> /\ Head(s) = "/" THEN LStripSlash(Tail(s)) ELSE s

\* The first position from i on that holds a "/", or Len(s) + 1.
RECURSIVE SlashFrom(_, _)
SlashFrom(s, i) == IF i <= Len(s) /\ s[i] # "/" THEN SlashFrom(s, i + 1) ELSE i

\* parse_s3_path: [ok, bucket, key]; not ok stands for ValueError.
parse_s3_path(s3_path) ==
    IF ~StartsWith(s3_path, S3_SCHEME)
    THEN [ok |-> FALSE, bucket |-> <<>>, key |-> <<>>]
    ELSE LET cut == SlashFrom(s3_path, Len(S3_SCHEME) + 1)
             key == LStripSlash(SubSeq(s3_path, cut, Len(s3_path)))
         IN [ok |-> TRUE,
             bucket |-> SubSeq(s3_path, Len(S3_SCHEME) + 1, cut - 1),
             key |-> IF key # <<>> /\ ~EndsWith(key, <<"/">>) THEN key \o <<"/">>
                     ELSE key]

\* "v1/account_id=\d+" matched at position i of s: the position after the
\* digits, or 0.
AccountAt(s, i) ==
    IF /\ i + Len(ACCOUNT_ID_EQ) <= Len(s)
       /\ SubSeq(s, i, i + Len(ACCOUNT_ID_EQ) - 1) = ACCOUNT_ID_EQ
       /\ IsDigit(s[i + Len(ACCOUNT_ID_EQ)])
    THEN DigitsEnd(s, i + Len(ACCOUNT_ID_EQ))
    ELSE 0

\* re.search(r"v1/account_id=\d+/?$", s)
IsAccountBase(s) ==
    \E i \in 1..Len(s) :
       LET j == AccountAt(s, i)
       IN j # 0 /\ (j = Len(s) + 1 \/ (j = Len(s) /\ s[j] = "/"))

\* re.search(r"v1/account_id=\d+/", s)
HasAccountBase(s) ==
    \E i \in 1..Len(s) :
       LET j == AccountAt(s, i) IN j # 0 /\ j <= Len(s) /\ s[j] = "/"

\* re.match(r"(v1/account_id=\d+/)", s): group 1, or <<>> for no match.
LeadingAccountBase(s) ==
    LET j == AccountAt(s, 1)
    IN IF j # 0 /\ j <= Len(s) /\ s[j] = "/" THEN SubSeq(s, 1, j) ELSE <<>>

\* A validation that, like v1's build_date_prefix, wants the plain
\* decisions marker for type decisions.
validate_prefix_endswith_plain(p, partition_type) ==
    IF ~(EndsWith(p, TYPE_DECISIONS) \/ EndsWith(p, TYPE_EVENTS) \/ EndsWith(p, TYPE_RERUN))
    THEN "bad_suffix"
    ELSE IF partition_type = T_EVENTS /\ ~EndsWith(p, TYPE_EVENTS)
    THEN "events_mismatch"
    ELSE IF partition_type = T_DECISIONS /\ ~EndsWith(p, TYPE_DECISIONS)
    THEN "decisions_mismatch"
    ELSE "none"

\* validate_prefix_endswith: which ValueError it raises, or "none".
validate_prefix_endswith(p, partition_type) ==
    IF ~(EndsWith(p, TYPE_DECISIONS) \/ EndsWith(p, TYPE_EVENTS) \/ EndsWith(p, TYPE_RERUN))
    THEN "bad_suffix"
    ELSE IF partition_type = T_EVENTS /\ ~EndsWith(p, TYPE_EVENTS)
    THEN "events_mismatch"
    ELSE IF partition_type = T_DECISIONS
            /\ ~(EndsWith(p, TYPE_DECISIONS) \/ EndsWith(p, TYPE_RERUN))
    THEN "decisions_mismatch"
    ELSE "none"

\* An account base that takes --account-id first and the hint second.
AccountBaseIdFirst(from_hint, account_id) ==
    IF account_id # <<>> THEN ACCOUNT_ID_EQ \o account_id \o <<"/">>
    ELSE from_hint

\* account_base of compute_bucket_and_prefix: the one found in the hint,
\* and "if not account_base and args.account_id" the one of --account-id.
AccountBase(from_hint, account_id) ==
    IF from_hint # <<>> THEN from_hint
    ELSE IF account_id # <<>> THEN ACCOUNT_ID_EQ \o account_id \o <<"/">>
    ELSE <<>>

\* compute_bucket_and_prefix: the bucket and the base prefix, or the
\* exception it raises; with the call of validate_prefix_endswith it made.
compute_bucket_and_prefix(a, hint) ==
    IF a.prefix # <<>>
    THEN LET p == IF EndsWith(a.prefix, <<"/">>) THEN a.prefix ELSE a.prefix \o <<"/">>
             e == validate_prefix_endswith(p, a.partition_type)
         IN [error |-> e,
             bucket |-> IF a.bucket # <<>> THEN a.bucket ELSE DEFAULT_BUCKET,
             prefix |-> p,
             checked |-> <<[prefix |-> p, partition_type |-> a.partition_type,
                            error |-> e]>>]
    ELSE LET parsed == IF hint # <<>> THEN parse_s3_path(hint)
                       ELSE [ok |-> FALSE, bucket |-> <<>>, key |-> <<>>]
             base_bucket == IF parsed.ok THEN parsed.bucket ELSE <<>>
             base_key == IF parsed.ok THEN parsed.key ELSE <<>>
             from_hint == IF base_key # <<>> /\ IsAccountBase(base_key) THEN base_key
                          ELSE IF base_key # <<>> /\ HasAccountBase(base_key)
                          THEN LeadingAccountBase(base_key)
                          ELSE <<>>
             account_base == AccountBase(from_hint, a.account_id)
             p == account_base \o TYPE_EQ \o a.partition_type \o <<"/">>
             e == validate_prefix_endswith(p, a.partition_type)
         IN [error |-> IF account_base = <<>> THEN "no_account_base" ELSE e,
             bucket |-> IF a.bucket # <<>> THEN a.bucket
                        ELSE IF base_bucket # <<>> THEN base_bucket
                        ELSE DEFAULT_BUCKET,
             prefix |-> p,
             checked |-> IF account_base = <<>> THEN <<>>
                         ELSE <<[prefix |-> p, partition_type |-> a.partition_type,
                                 error |-> e]>>]

\* Credentials returned although a field of them is missing.
fetch_optimizely_temp_creds_lenient(outcome) == outcome \in {"ok", "missing_field"}

\* fetch_optimizely_temp_creds returns credentials only for a response of
\* status 200 with a JSON body that holds the four fields and a numeric
\* expiration; everything else raises RuntimeError (ValueError for the
\* expiration), which nothing in main catches.
fetch_optimizely_temp_creds(outcome) == outcome = "ok"

\* sys.exit(message), and an exception nothing catches: status 1.
Fail(e) ==
    /\ error' = e
    /\ exit_code' = 1
    /\ pc' = "exit"

\* "Parse dates": both dates in YYYY-MM-DD, the end not before the start.
ParseDates ==
    /\ pc = "dates"
    /\ LET start == FromIsoFormat(args.start_date)
           end == FromIsoFormat(args.end_date)
       IN IF start = <<>> \/ end = <<>> THEN Fail("dates_format")
          ELSE IF ~DateLE(start, end) THEN Fail("dates_order")
          ELSE pc' = "client" /\ UNCHANGED <<error, exit_code>>
    /\ UNCHANGED <<script, args, bucket, prefix, net, run_vars, env, s3_path_hint,
                   checked, cred_response, log, load_vars>>

\* "Build S3 client": with --auth optimizely the token is wanted and
\* s3_client_via_optimizely calls refresh(), which requests the
\* credentials; with --auth aws the keys of the environment are wanted.
BuildClient ==
    /\ pc = "client"
    /\ IF args.auth = "optimizely"
       THEN LET pat == IF args.pat # <<>> THEN args.pat ELSE env.OPTIMIZELY_PAT
            IN IF pat = <<>>
               THEN Fail("missing_pat") /\ UNCHANGED <<net, s3_path_hint, cred_response>>
               ELSE \E outcome \in CredOutcomes, s3Path \in HintPaths :
                      /\ net' = Append(net, Call("GET_CREDENTIALS", OPTLY_CRED_URL, NoToken))
                      /\ cred_response' = outcome
                      /\ IF fetch_optimizely_temp_creds(outcome)
                         THEN /\ s3_path_hint' = s3Path
                              /\ pc' = "compute"
                              /\ UNCHANGED <<error, exit_code>>
                         ELSE /\ Fail("credentials_api")
                              /\ UNCHANGED s3_path_hint
       ELSE /\ IF env.AWS_KEYS
               THEN pc' = "compute" /\ UNCHANGED <<error, exit_code>>
               ELSE Fail("missing_aws_keys")
            /\ UNCHANGED <<net, s3_path_hint, cred_response>>
    /\ UNCHANGED <<script, args, bucket, prefix, run_vars, env, checked, log,
                   load_vars>>

\* "Determine bucket/prefix": compute_bucket_and_prefix, any exception of
\* which ends the run with its message; then the plan is printed.
ComputePrefix ==
    /\ pc = "compute"
    /\ \E r \in {compute_bucket_and_prefix(args, s3_path_hint)} :
         /\ checked' = r.checked
         /\ IF r.error # "none"
            THEN Fail(r.error) /\ UNCHANGED <<bucket, prefix>>
            ELSE /\ bucket' = r.bucket
                 /\ prefix' = r.prefix
                 /\ pc' = "planned"
                 /\ UNCHANGED <<error, exit_code>>
    /\ UNCHANGED <<script, args, net, run_vars, env, s3_path_hint, cred_response,
                   log, load_vars>>

\* The command lines and environments tried.
InitStart ==
    /\ script = "v2"
    /\ pc = "dates"
    /\ \E auth \in {"optimizely", "aws"}, pat \in {<<>>, PAT},
          b \in {<<>>, EXPORT_BUCKET}, p \in PrefixArgs, id \in {<<>>, ACCOUNT_ID},
          t \in {T_DECISIONS, T_EVENTS, T_RERUN}, s \in DateArgs, e \in DateArgs :
         args = [auth |-> auth, pat |-> pat, bucket |-> b, prefix |-> p,
                 account_id |-> id, partition_type |-> t, start_date |-> s,
                 end_date |-> e, dry_run |-> FALSE, require_success |-> TRUE]
    /\ \E pat \in {<<>>, PAT}, keys \in BOOLEAN :
         env = [OPTIMIZELY_PAT |-> pat, AWS_KEYS |-> keys]
    /\ bucket = <<>>
    /\ prefix = <<>>
    /\ cur = DEFAULT_START_DATE
    /\ s3_path_hint = <<>>
    /\ error = "none"
    /\ checked = <<>>
    /\ cred_response = "none"
    /\ log = <<>>
    /\ Fresh
    /\ NoLoad

NextStart ==
    \/ ParseDates
    \/ BuildClient
    \/ ComputePrefix

SpecStart == InitStart /\ [][NextStart]_vars

\* The errors that the arguments and the environment alone decide.
ConfigErrors ==
    {"dates_format", "dates_order", "missing_pat", "missing_aws_keys", "bad_suffix",
     "events_mismatch", "decisions_mismatch"}

\* C9. Configuration errors precede network activity: when the run ends
\* with a configuration error, a mismatch of prefix and type among them,
\* no network call has been made, the credential request included.
ConfigErrorsPrecedeNetwork == error \in ConfigErrors => net = <<>>

\* C10. Prefix/type validation rule: for type decisions a prefix is
\* accepted exactly when it ends with the decisions or the
\* decisions-rerun marker, for type events exactly when it ends with the
\* events marker; a prefix that is rejected ends the run with an error and
\* no prefix in use, and one that is accepted is used as it was checked.
PrefixValidationRule ==
    \A i \in 1..Len(checked) :
       LET c == checked[i]
       IN /\ c.partition_type = T_DECISIONS =>
               (c.error = "none" <=> (EndsWith(c.prefix, TYPE_DECISIONS)
                                        \/ EndsWith(c.prefix, TYPE_RERUN)))
          /\ c.partition_type = T_EVENTS =>
               (c.error = "none" <=> EndsWith(c.prefix, TYPE_EVENTS))
          /\ c.error # "none" =>
               /\ pc = "exit"
               /\ exit_code # 0
               /\ error = c.error
               /\ prefix = <<>>
          /\ c.error = "none" => pc = "planned" /\ prefix = c.prefix

\* Type decisions with a prefix of the decisions-rerun marker was
\* accepted, and so was the plan.
PrefixValidationRuleWitness ==
    /\ pc = "planned"
    /\ checked # <<>>
    /\ checked[1].partition_type = T_DECISIONS
    /\ EndsWith(checked[1].prefix, TYPE_RERUN)
    /\ checked[1].error = "none"

\* The marker of a prefix suits the requested type: the events marker for
\* events, the decisions-rerun marker for decisions-rerun, either
\* decisions marker for decisions.
SuitsType(p, partition_type) ==
    /\ partition_type = T_EVENTS => EndsWith(p, TYPE_EVENTS)
    /\ partition_type = T_RERUN => EndsWith(p, TYPE_RERUN)
    /\ partition_type = T_DECISIONS =>
         (EndsWith(p, TYPE_DECISIONS) \/ EndsWith(p, TYPE_RERUN))

\* C11. For each type the command line accepts (decisions, events,
\* decisions-rerun), a prefix whose marker does not suit the requested
\* type is rejected as a configuration error: no validation accepts it,
\* in particular not that of type decisions-rerun with a prefix of the
\* events or the plain decisions marker.
MismatchRejected ==
    \A i \in 1..Len(checked) :
       checked[i].error = "none" =>
          SuitsType(checked[i].prefix, checked[i].partition_type)

\* The credentials came with a location hint that names a bucket and an
\* account base.
HintGiven ==
    /\ s3_path_hint # <<>>
    /\ parse_s3_path(s3_path_hint).ok
    /\ HasAccountBase(parse_s3_path(s3_path_hint).key)

\* What --prefix asks for, with the final "/" the code adds.
ExplicitPrefix ==
    IF EndsWith(args.prefix, <<"/">>) THEN args.prefix ELSE args.prefix \o <<"/">>

\* C16 as claimed. Location hint precedence: with a hint given, the
\* bucket in use is the hint's and the prefix in use starts with the
\* hint's account base, whatever --bucket, --prefix and --account-id say.
HintPrecedenceAsClaimed ==
    (pc = "planned" /\ HintGiven) =>
        /\ bucket = parse_s3_path(s3_path_hint).bucket
        /\ prefix = LeadingAccountBase(parse_s3_path(s3_path_hint).key)
                       \o TYPE_EQ \o args.partition_type \o <<"/">>

\* C16. Location hint precedence: with a hint given, --prefix and
\* --bucket still win and only --account-id gives way. Without --prefix
\* the prefix in use is the hint's account base followed by the type
\* marker, and the bucket is that of --bucket, or the hint's without
\* --bucket; with --prefix the hint is not used: the prefix is that of
\* --prefix and the bucket that of --bucket or the default bucket.
HintPrecedence ==
    (pc = "planned" /\ HintGiven) =>
        IF args.prefix # <<>>
        THEN /\ prefix = ExplicitPrefix
             /\ bucket = (IF args.bucket # <<>> THEN args.bucket ELSE DEFAULT_BUCKET)
        ELSE /\ prefix = LeadingAccountBase(parse_s3_path(s3_path_hint).key)
                            \o TYPE_EQ \o args.partition_type \o <<"/">>
             /\ bucket = (IF args.bucket # <<>> THEN args.bucket
                          ELSE parse_s3_path(s3_path_hint).bucket)

\* A plan made with a hint, --bucket and --account-id but no --prefix:
\* the bucket in use is not the hint's, the account is.
HintPrecedenceWitness ==
    /\ pc = "planned"
    /\ HintGiven
    /\ args.prefix = <<>>
    /\ args.account_id # <<>>
    /\ args.bucket # <<>>
    /\ bucket # parse_s3_path(s3_path_hint).bucket
    /\ StartsWith(prefix, ACCOUNT_PREFIX)

----------------------------------------------------------------------------
(* load_optimizely_decisions_v2.main from its first line to its last: the   *)
(* start-up followed by the date loop and the transfer loop.                *)

\* After the plan is printed: "all_objects = []" and the first date of
\* daterange(start, end), with the parsed dates and the options the loops
\* read.
StartLoop ==
    /\ pc = "planned"
    /\ \E start \in {FromIsoFormat(args.start_date)} :
         /\ args' = [start |-> start, end |-> FromIsoFormat(args.end_date),
                     dry_run |-> args.dry_run,
                     require_success |-> args.require_success,
                     force_scan |-> FALSE]
         /\ cur' = start
    /\ pc' = "probe"
    /\ UNCHANGED <<script, bucket, prefix, exit_code, net, detect, listing, listed,
                   token, day_objs, all_objects, idx, ok, skipped, failed, files,
                   dirs, before, run, last_head, gated, outcomes, prev>>
    /\ UNCHANGED <<dir_size, store, start_vars, load_vars>>

\* The command lines and environments of the whole runs: a token and keys
\* in the environment or neither, a prefix with or without its type
\* marker, every pair of date arguments.
InitMain ==
    /\ InitStart
    /\ args.pat = <<>>
    /\ args.bucket = <<>>
    /\ args.account_id = <<>>
    /\ args.partition_type = T_DECISIONS
    /\ args.prefix \in {ACCOUNT_PREFIX \o TYPE_DECISIONS, ACCOUNT_PREFIX}
    /\ env \in {[OPTIMIZELY_PAT |-> <<>>, AWS_KEYS |-> FALSE],
                [OPTIMIZELY_PAT |-> PAT, AWS_KEYS |-> TRUE]}

NextMain ==
    \/ ParseDates
    \/ BuildClient
    \/ ComputePrefix
    \/ StartLoop
    \/ Probe
    \/ ListPage
    \/ Collected
    \/ TransferStep
    \/ Summary

SpecMain == InitMain /\ [][NextMain]_vars

\* C14. Exit status: a run that ends with failed = 0 exits 0, also when
\* no object was found, and then no transfer was attempted; a run that
\* ends with failed > 0 exits 2; a run that ends on a configuration error
\* (missing token or keys, malformed prefix, malformed or inverted dates)
\* exits 1, a third code, before any object is listed or fetched.
ExitStatusDistinguishes ==
    pc = "exit" =>
       /\ error # "none" =>
            /\ exit_code = 1
            /\ all_objects = <<>> /\ outcomes = <<>>
            /\ \A i \in 1..Len(net) : net[i].op \notin {"LIST", "HEAD", "GET"}
       /\ (error = "none" /\ failed > 0) => exit_code = 2
       /\ (error = "none" /\ failed = 0) => exit_code = 0
       /\ all_objects = <<>> =>
            /\ outcomes = <<>>
            /\ ok = 0 /\ skipped = 0 /\ failed = 0
            /\ \A i \in 1..Len(net) : net[i].op # "GET"

\* A run that passed the start-up, collected objects and ended with a
\* failed transfer.
ExitStatusDistinguishesWitness ==
    /\ pc = "exit"
    /\ checked # <<>>
    /\ error = "none"
    /\ failed > 0
    /\ exit_code = 2

----------------------------------------------------------------------------
(* The credential exchange with what it writes: fetch_optimizely_temp_creds *)
(* called by load_optimizely_decisions_v2.main and by                       *)
(* test_optimizely_auth.py. The latter imports the function of              *)
(* load_optimizely_decisions.py, modelled as that file words it (a later    *)
(* function of the file is indented wrongly).                               *)

\* A message: the stream it is written to and the data that show in it.
Message(stream, shows) == [stream |-> stream, shows |-> shows]

\* The traceback of an exception nothing catches, with its message.
Traceback(shows) == Message("stderr", shows)

\* The token is looked up: main takes --pat or OPTIMIZELY_PAT and exits
\* with a message without either; the test script takes OPTIMIZELY_PAT and
\* raises RuntimeError without it.
AuthStart ==
    /\ pc = "start"
    /\ LET pat == IF args.pat # <<>> THEN args.pat ELSE env.OPTIMIZELY_PAT
       IN IF pat = <<>>
          THEN /\ Fail("missing_pat")
               /\ log' = Append(log, Message("stderr", {}))
          ELSE /\ pc' = "request"
               /\ UNCHANGED <<error, exit_code, log>>
    /\ UNCHANGED <<script, args, bucket, prefix, net, run_vars, env, s3_path_hint,
                   checked, cred_response, load_vars>>

\* requests.get(OPTLY_CRED_URL, ...) and what comes back.
Request ==
    /\ pc = "request"
    /\ \E outcome \in CredOutcomes :
         /\ net' = Append(net, Call("GET_CREDENTIALS", OPTLY_CRED_URL, NoToken))
         /\ cred_response' = outcome
    /\ pc' = "fetched"
    /\ UNCHANGED <<script, args, bucket, prefix, exit_code, run_vars, env,
                   s3_path_hint, error, checked, log, load_vars>>

\* What the rest of fetch_optimizely_temp_creds writes before it raises:
\* with verbose, the status and the head of the body of a response that is
\* not 200; and the message of the exception, which the traceback shows.
FetchMessages(scr, outcome, verbose) ==
    IF outcome = "exception" THEN <<Traceback({"exception"})>>
    ELSE IF outcome = "status"
    THEN (IF verbose THEN <<Message("stderr", {"status_code", "body"})>> ELSE <<>>)
            \o <<Traceback({"status_code"})>>
    ELSE IF outcome = "bad_json"
    THEN <<Traceback(IF scr = "v2" THEN {"exception", "body"} ELSE {"exception"})>>
    ELSE IF outcome = "missing_field" THEN <<Traceback({})>>
    ELSE IF outcome = "bad_expiration" THEN <<Traceback({"expiration"})>>
    ELSE <<>>

\* The rest of fetch_optimizely_temp_creds: it returns the credentials
\* (v2: with the s3Path of the response), or raises.
Fetched ==
    /\ pc = "fetched"
    /\ log' = log \o FetchMessages(script, cred_response, args.verbose)
    /\ IF fetch_optimizely_temp_creds(cred_response)
       THEN /\ pc' = "report"
            /\ \E s3Path \in (IF script = "v2" THEN HintPaths ELSE {<<>>}) :
                 s3_path_hint' = s3Path
            /\ UNCHANGED <<error, exit_code>>
       ELSE /\ Fail("credentials_api")
            /\ UNCHANGED s3_path_hint
    /\ UNCHANGED <<script, args, bucket, prefix, net, run_vars, env, checked,
                   cred_response, load_vars>>

\* What the caller prints once it holds the credentials: main one line
\* about the client; the test script one line and then print(creds), the
\* dict that fetch_optimizely_temp_creds returned.
CallerMessages(scr) ==
    IF scr = "test_auth"
    THEN <<Message("stdout", {}),
           Message("stdout", {"access_key", "secret_key", "token", "expiry_time"})>>
    ELSE <<Message("stdout", {})>>

Report ==
    /\ pc = "report"
    /\ log' = log \o CallerMessages(script)
    /\ pc' = IF script = "test_auth" THEN "exit" ELSE "compute"
    /\ UNCHANGED <<script, args, bucket, prefix, exit_code, net, run_vars, env,
                   s3_path_hint, error, checked, cred_response, load_vars>>

\* The callers tried: main with --auth optimizely, with and without --pat
\* and --verbose, and the test script, which passes verbose=True.
InitAuth ==
    /\ script \in {"v2", "test_auth"}
    /\ pc = "start"
    /\ \E pat \in {<<>>, PAT}, verbose \in BOOLEAN, duration \in {<<>>, <<"1", "h">>} :
         /\ script = "test_auth" =>
               (pat = <<>> /\ verbose /\ duration = <<"1", "h">>)
         /\ args = [auth |-> "optimizely", pat |-> pat, verbose |-> verbose,
                    duration |-> duration]
    /\ \E pat \in {<<>>, PAT} : env = [OPTIMIZELY_PAT |-> pat, AWS_KEYS |-> FALSE]
    /\ bucket = <<>>
    /\ prefix = <<>>
    /\ cur = DEFAULT_START_DATE
    /\ s3_path_hint = <<>>
    /\ error = "none"
    /\ checked = <<>>
    /\ cred_response = "none"
    /\ log = <<>>
    /\ Fresh
    /\ NoLoad

NextAuth ==
    \/ AuthStart
    \/ Request
    \/ Fetched
    \/ Report

SpecAuth == InitAuth /\ [][NextAuth]_vars

----------------------------------------------------------------------------
(* The loaders: stage_and_load_to_bq_gcs.py and                             *)
(* stage_and_load_to_bq_local_v2.py. A file is a number; 0 stands for the  *)
(* rows the table held before the run.                                     *)

Min(a, b) == IF a < b THEN a ELSE b

\* chunks(lst, n): lst[i:i+n] for i in range(0, len(lst), n)
RECURSIVE chunks(_, _)
chunks(lst, n) ==
    IF lst = <<>> THEN <<>>
    ELSE <<SubSeq(lst, 1, Min(n, Len(lst)))>>
           \o chunks(SubSeq(lst, Min(n, Len(lst)) + 1, Len(lst)), n)

\* all_files[i:i + args.batch_size], i counted from 1
BatchAt(lst, i, n) == SubSeq(lst, i, Min(i + n - 1, Len(lst)))

\* write_disposition: the GCS loader always appends; the local loader
\* appends or truncates by --write-mode.
WriteDisposition(scr, write_mode) ==
    IF scr = "gcs" \/ write_mode = "append" THEN "WRITE_APPEND" ELSE "WRITE_TRUNCATE"

\* The table after a load job that succeeded.
Loaded(tbl, job) ==
    IF job.disposition = "WRITE_APPEND" THEN tbl \o job.uris ELSE job.uris

\* The number of the batch the loader is at.
BatchNo == IF script = "gcs" THEN at ELSE ((at - 1) \div args.batch_size) + 1

\* Before the first batch: the GCS loader exits 0 when nothing was
\* uploaded; the local loader's loop over no file does nothing.
StartLoad ==
    /\ pc = "start"
    /\ IF uris = <<>>
       THEN pc' = "exit" /\ exit_code' = 0
       ELSE pc' = "submit" /\ UNCHANGED exit_code
    /\ UNCHANGED <<script, args, bucket, prefix, net, run_vars, start_vars, load_vars>>

\* client.load_table_from_uri(batch, ...) for the next chunk, or
\* client.load_table_from_file(f, ...) for the next file of the batch.
Submit ==
    /\ pc = "submit"
    /\ jobs' = Append(jobs,
                 [uris |-> IF script = "gcs" THEN chunks(uris, args.batch_size)[at]
                           ELSE <<BatchAt(uris, at, args.batch_size)[file_at - at + 1]>>,
                  batch |-> BatchNo,
                  disposition |-> WriteDisposition(script, args.write_mode),
                  state |-> "running"])
    /\ pc' = "wait"
    /\ UNCHANGED <<script, args, bucket, prefix, exit_code, net, run_vars, start_vars,
                   uris, table, at, file_at>>

\* A call that may return while the job is still running.
JobResultNoWait == {"done", "failed", "running"}

\* job.result() blocks until the job has ended: it is done, or it failed.
JobResult == {"done", "failed"}

\* job.result(): it returns when the job is done, and then the loop goes
\* on; or it raises, and nothing catches the exception.
Wait ==
    /\ pc = "wait"
    /\ \E result \in JobResult :
         /\ jobs' = [jobs EXCEPT ![Len(jobs)].state = result]
         /\ IF result = "failed"
            THEN /\ pc' = "exit"
                 /\ exit_code' = 1
                 /\ UNCHANGED <<table, at, file_at>>
            ELSE /\ table' = Loaded(table, jobs[Len(jobs)])
                 /\ IF script = "gcs"
                    THEN /\ at' = at + 1
                         /\ file_at' = file_at
                         /\ pc' = IF at + 1 > Len(chunks(uris, args.batch_size))
                                  THEN "exit" ELSE "submit"
                    ELSE /\ file_at' = file_at + 1
                         /\ at' = IF file_at + 1 > Min(at + args.batch_size - 1, Len(uris))
                                  THEN at + args.batch_size ELSE at
                         /\ pc' = IF file_at + 1 > Len(uris) THEN "exit" ELSE "submit"
                 /\ UNCHANGED exit_code
    /\ UNCHANGED <<script, args, bucket, prefix, net, run_vars, start_vars, uris>>

\* The loads tried: either loader, some files, a batch size, a write mode,
\* a table with or without rows.
InitLoad ==
    /\ script \in {"gcs", "local_v2"}
    /\ pc = "start"
    /\ \E n \in 1..MaxBatchSize, mode \in {"append", "overwrite"} :
         /\ script = "gcs" => mode = "append"
         /\ args = [batch_size |-> n, write_mode |-> mode]
    /\ \E n \in 0..MaxFiles : uris = [i \in 1..n |-> i]
    /\ jobs = <<>>
    /\ table \in {<<>>, <<0>>}
    /\ at = 1
    /\ file_at = 1
    /\ bucket = <<>>
    /\ prefix = <<>>
    /\ exit_code = 0
    /\ net = <<>>
    /\ cur = DEFAULT_START_DATE
    /\ Fresh
    /\ NoStart

NextLoad ==
    \/ StartLoad
    \/ Submit
    \/ Wait

SpecLoad == InitLoad /\ [][NextLoad]_vars

\* The files of the jobs submitted so far, in order.
RECURSIVE Submitted(_)
Submitted(js) == IF js = <<>> THEN <<>> ELSE Head(js).uris \o Submitted(Tail(js))

\* ceil(n / b)
CeilDiv(n, b) == (n + b - 1) \div b

\* C6. Chunking: for N files and batch size B the loader submits jobs of
\* at most B files each, in input order and without omission or
\* repetition, and a load that completes has submitted exactly ceil(N/B)
\* jobs, whose files in order are the input list.
Chunking ==
    /\ \A k \in 1..Len(jobs) : Len(jobs[k].uris) <= args.batch_size
    /\ Submitted(jobs) = SubSeq(uris, 1, Len(Submitted(jobs)))
    /\ (pc = "exit" /\ exit_code = 0) =>
         /\ Submitted(jobs) = uris
         /\ Len(jobs) = CeilDiv(Len(uris), args.batch_size)

\* C7. Load failure aborts the run: once a load job has failed the run
\* has ended with an error at that batch, the failed job is the last one
\* submitted, and the files of every batch before the failing one are in
\* the table.
LoadFailureAborts ==
    \A k \in 1..Len(jobs) : jobs[k].state = "failed" =>
        /\ pc = "exit"
        /\ exit_code # 0
        /\ k = Len(jobs)
        /\ \A j \in 1..(k - 1) :
             jobs[j].batch < jobs[k].batch =>
                \A u \in 1..Len(jobs[j].uris) :
                   \E t \in 1..Len(table) : table[t] = jobs[j].uris[u]

\* C19. Serialized load jobs: a load job is submitted only after every
\* job submitted before it has completed; at most one job is running at
\* any time, the last one submitted, and the loader is then waiting for
\* it.
SerializedLoads ==
    /\ \A i \in 1..Len(jobs) :
          /\ i < Len(jobs) => jobs[i].state = "done"
          /\ jobs[i].state = "running" => pc = "wait"
    /\ Cardinality({i \in 1..Len(jobs) : jobs[i].state = "running"}) <= 1
    /\ \A i \in 1..Len(jobs), j \in 1..Len(jobs) :
          i < j => jobs[i].batch <= jobs[j].batch

\* The second job is running and the first is done.
SerializedLoadsWitness ==
    /\ Len(jobs) = 2
    /\ jobs[1].state = "done"
    /\ jobs[2].state = "running"
    /\ jobs[2].batch = 2

\* C24. Overwrite mode of the local-file loader: after a run with write
\* mode "overwrite" that loaded every file it found, the table holds the
\* rows of every one of these files and no row from before the run.
OverwriteReplaces ==
    (/\ script = "local_v2"
     /\ args.write_mode = "overwrite"
     /\ uris # <<>>
     /\ pc = "exit"
     /\ exit_code = 0)
    => {table[t] : t \in 1..Len(table)} = {uris[i] : i \in 1..Len(uris)}

----------------------------------------------------------------------------
(* The enumeration by itself: list_objects of v2 and list_s3_objects of    *)
(* the day-folder script, over a store that may also answer with a page    *)
(* marked truncated that names no next page.                               *)

\* What list_objects_v2 may answer: the page asked for, and for a page
\* that is truncated also the same page without NextContinuationToken.
Responses(L, tok) ==
    LET resp == ListObjectsV2(L, tok)
    IN {resp} \cup (IF resp.IsTruncated
                    THEN {[resp EXCEPT !.NextContinuationToken = NoToken]}
                    ELSE {})

\* One pass of "while True": the request (with the token, "if token"),
\* every object of the page is yielded, then the token of the response is
\* kept if the page is truncated, and the loop is left if it is not.
ListObjects ==
    /\ pc = "list"
    /\ Len(net) < MaxRequests
    /\ \E L \in (IF listed THEN {listing}
                 ELSE Listings(ObjectsUnder(prefix), MaxObjects)) :
       \E resp \in Responses(L, token) :
         /\ net' = Append(net, Call("LIST", prefix, token))
         /\ listing' = L
         /\ listed' = TRUE
         /\ day_objs' = day_objs \o resp.Contents
         /\ IF resp.IsTruncated
            THEN token' = resp.NextContinuationToken /\ pc' = "list"
            ELSE token' = token /\ pc' = "listed"
    /\ UNCHANGED <<script, args, bucket, prefix, exit_code, cur, detect, all_objects,
                   idx, ok, skipped, failed, files, dirs, before, run, last_head,
                   gated, outcomes, prev, dir_size, store>>
    /\ UNCHANGED <<start_vars, load_vars>>

\* An enumeration of the prefix of the first date, in either script.
InitList ==
    /\ script \in {"v2", "s3"}
    /\ pc = "list"
    /\ args = [start |-> DEFAULT_START_DATE, end |-> DEFAULT_START_DATE,
               dry_run |-> FALSE, require_success |-> FALSE, force_scan |-> FALSE]
    /\ cur = DEFAULT_START_DATE
    /\ bucket = (IF script = "v2" THEN DEFAULT_BUCKET ELSE EXPORT_BUCKET)
    /\ prefix = (IF script = "v2"
                 THEN DatePrefix(ACCOUNT_PREFIX \o TYPE_DECISIONS, DEFAULT_START_DATE)
                 ELSE ymd_path_for(DEFAULT_PREFIX, DEFAULT_START_DATE))
    /\ Fresh
    /\ NoStart
    /\ NoLoad

NextList == ListObjects

SpecList == InitList /\ [][NextList]_vars

\* C21. Enumeration terminates: whatever pages the store answers with,
\* the enumeration of a prefix never requests the same page twice, issues
\* no more requests than the listing has pages (one for an empty
\* listing), and once it has stopped it has yielded every object of the
\* listing once, in order: nothing for a prefix without objects.
EnumerationTerminates ==
    /\ \A i \in 1..Len(net), j \in 1..Len(net) :
          i < j => net[i].tok # net[j].tok
    /\ listed => Len(net) <= (IF listing = <<>> THEN 1
                              ELSE CeilDiv(Len(listing), PageSize))
    /\ pc = "listed" => day_objs = listing

----------------------------------------------------------------------------
(* The scan of extract_optimizely_s3.main by itself: the date heuristic    *)
(* applied to keys of many shapes.                                         *)

\* The keys tried: dates with each separator and with none, dates that
\* are no calendar days, digits next to a date, several dates in one key,
\* no date at all.
ScanKeys ==
    {DEFAULT_PREFIX \o <<"2","0","2","4","/","1","0","/","3","0","/","a",".","p","a","r","q","u","e","t">>,
     DEFAULT_PREFIX \o <<"2","0","2","4","-","1","0","-","3","1",".","p","a","r","q","u","e","t">>,
     DEFAULT_PREFIX \o <<"2","0","2","4","1","1","0","1","_","x">>,
     DEFAULT_PREFIX \o <<"2","0","2","4","/","1","3","/","3","0","/","a">>,
     DEFAULT_PREFIX \o <<"2","0","2","4","-","1","0","-","3","2","_","2","0","2","4","-","1","1","-","0","1">>,
     DEFAULT_PREFIX \o <<"x","2","0","2","4","_","1","0","_","3","0">>,
     DEFAULT_PREFIX \o <<"1","2","0","2","4","1","0","3","0">>,
     DEFAULT_PREFIX \o <<"2","0","2","4","1","0","3","0","1">>,
     DEFAULT_PREFIX \o <<"2","0","2","3","-","1","0","-","3","0">>,
     DEFAULT_PREFIX \o <<"a",".","p","a","r","q","u","e","t">>,
     DEFAULT_PREFIX \o <<"2","0","2","4","-","0","2","-","3","0","/","2","0","2","4","-","1","0","-","3","0">>,
     DEFAULT_PREFIX \o <<"2","0","2","4","/","1","0","/","2","9","/","2","0","2","4","-","1","0","-","3","1">>,
     DEFAULT_PREFIX \o <<"2","0","2","4","-","0","0","-","3","1">>,
     DEFAULT_PREFIX \o <<"2","0","2","4","-","1","0","-","3","2","/","a">>}

\* The days the ranges of the scan are drawn from: the end of a month and
\* the start of the next.
ScanDays == {DayAt(i) : i \in 0..2}

\* "for obj in list_s3_objects(...): if key_has_date_in_range(...):
\* objects.append(obj)", one object of the listing at a time.
ScanKey ==
    /\ pc = "scan_key"
    /\ \E L \in (IF listed THEN {listing}
                 ELSE {<<[Key |-> k, Size |-> 100]>> : k \in ScanKeys}
                      \cup {<<[Key |-> k, Size |-> 100], [Key |-> l, Size |-> 100]>> :
                              k \in ScanKeys, l \in ScanKeys}) :
         /\ listing' = L
         /\ listed' = TRUE
         /\ all_objects' = all_objects
                             \o OnlyInRange(<<L[idx]>>, args.start, args.end)
         /\ idx' = idx + 1
         /\ pc' = IF idx + 1 > Len(L) THEN "collected" ELSE pc
    /\ UNCHANGED <<script, args, bucket, prefix, exit_code, net, cur, detect, token,
                   day_objs, ok, skipped, failed, files, dirs, before, run,
                   last_head, gated, outcomes, prev, dir_size, store>>
    /\ UNCHANGED <<start_vars, load_vars>>

\* A scan (--force-scan) for every range of the days.
InitScan ==
    /\ script = "s3"
    /\ pc = "scan_key"
    /\ \E s \in ScanDays, e \in ScanDays :
         /\ DateLE(s, e)
         /\ args = [start |-> s, end |-> e, dry_run |-> FALSE,
                    require_success |-> FALSE, force_scan |-> TRUE]
         /\ cur = s
    /\ bucket = EXPORT_BUCKET
    /\ prefix = DEFAULT_PREFIX
    /\ Fresh
    /\ NoStart
    /\ NoLoad

NextScan == ScanKey

SpecScan == InitScan /\ [][NextScan]_vars

\* The dates the pattern finds in a key, calendar days or not.
ExtractedDates(key) ==
    {<<m[2], m[3], m[4]>> :
        m \in {MatchDateAt(key, i) : i \in 1..Len(key)} \ {<<>>}}

\* One of the dates found in the key is a day of the range.
DateInRange(key) ==
    ExtractedDates(key) \cap {RangeDays[k] : k \in DOMAIN RangeDays} # {}

\* C23. Heuristic date inclusion: in a scan the objects collected are,
\* in the order listed, exactly those whose key holds at least one
\* date-like substring that is a calendar day d with start <= d <= end;
\* a substring that is no calendar day raises no error and counts for
\* nothing, and a key without a date in range is not collected.
HeuristicDateInclusion ==
    (pc \in {"scan_key", "collected"} /\ listed) =>
        /\ all_objects = SelectSeq(SubSeq(listing, 1, idx - 1),
                                   LAMBDA o : DateInRange(o.Key))
        /\ error = "none"
        /\ exit_code = 0

\* A scan over the turn of the month has collected a key in which a date
\* that is no calendar day comes before one in range.
HeuristicDateInclusionWitness ==
    /\ pc = "collected"
    /\ args.start = DEFAULT_START_DATE
    /\ args.end # args.start
    /\ Len(all_objects) = 1
    /\ Len(listing) = 2
    /\ <<2024, 10, 32>> \in ExtractedDates(all_objects[1].Key)
    /\ <<2024, 11, 1>> \in ExtractedDates(all_objects[1].Key)

====
